---- MODULE Spec2Model ----
(***************************************************************************)
(* Bursary allocation lifecycle and SMS notification subsystem of the      *)
(* bureti-backend repository (Django / Django REST framework).             *)
(*                                                                         *)
(* Conventions                                                             *)
(*   - a Python string that the code inspects character by character (a   *)
(*     phone number) is a sequence of one-character strings;               *)
(*   - a null or empty phone is the empty sequence (the code only tests    *)
(*     its truthiness);                                                    *)
(*   - a request body (request.data, validated_data) is a function whose   *)
(*     DOMAIN is the set of keys the caller supplied;                      *)
(*   - timezone.now() is the variable now, which advances with every       *)
(*     request;                                                            *)
(*   - workers holds, for every server worker, the create request it has   *)
(*     validated and not yet written (requests are served concurrently by  *)
(*     several workers; the lifecycle specification serves them one at a   *)
(*     time and leaves every worker idle).                                 *)
(***************************************************************************)
EXTENDS Integers, Sequences, FiniteSets, TLC

VARIABLES students, now, settings, last, workers

vars == <<students, now, settings, last, workers>>

(***************************************************************************)
(* Bounds of the model.                                                    *)
(***************************************************************************)
MaxRecords == 2
MaxClock == 4

Ids == 1..MaxRecords
Users == {"u1"}
\* two workers serve requests side by side
Workers == {1, 2}

\* a worker that is not in the middle of a request
Idle == << >>

(***************************************************************************)
(* Null values of nullable columns (students/models.py).                   *)
(***************************************************************************)
NoPhone == <<>>
NoDate == 0
NoUser == "null"
NoReason == ""

(***************************************************************************)
(* Choices of the Student model.                                           *)
(***************************************************************************)
STATUS_CHOICES == {"pending", "approved", "disbursed", "rejected"}
SMS_STATUS_CHOICES == {"not_sent", "sent", "failed", "partial"}
EDUCATION_LEVEL_CHOICES == {"high_school", "college", "university"}
YEAR_CHOICES == {"Form 1", "Form 2", "Form 3", "Form 4",
                 "1st Year", "2nd Year", "3rd Year", "4th Year"}

(***************************************************************************)
(* Character-level helpers.                                                *)
(***************************************************************************)
DigitChars == {"0", "1", "2", "3", "4", "5", "6", "7", "8", "9"}

\* re.sub(r'[^\d]', '', str(phone))
StripNonDigits(s) == SelectSeq(s, LAMBDA c : c \in DigitChars)

\* str.startswith
StartsWith(s, p) == Len(s) >= Len(p) /\ SubSeq(s, 1, Len(p)) = p

(***************************************************************************)
(* students/sms.py : clean_phone_number.  Returns the pair                 *)
(* (cleaned_number, error_message) as a record; error = "" is None.        *)
(***************************************************************************)
\* a cleaning that keeps the trunk zero of a 07XXXXXXXX number
clean_phone_number_keeps_zero(phone_number) ==
    IF phone_number = NoPhone
    THEN [number |-> NoPhone, error |-> "Phone number is empty"]
    ELSE LET digits == StripNonDigits(phone_number)
         IN  IF StartsWith(digits, <<"2", "5", "4", "7">>) /\ Len(digits) = 12
             THEN [number |-> digits, error |-> ""]
             ELSE IF StartsWith(digits, <<"0", "7">>) /\ Len(digits) = 10
             THEN [number |-> <<"2", "5", "4">> \o digits, error |-> ""]
             ELSE IF StartsWith(digits, <<"7">>) /\ Len(digits) = 9
             THEN [number |-> <<"2", "5", "4">> \o digits, error |-> ""]
             ELSE [number |-> NoPhone, error |-> "Invalid phone format"]

\* a cleaning that lets every 12-digit number starting with 254 through
clean_phone_number_any_254(phone_number) ==
    IF phone_number = NoPhone
    THEN [number |-> NoPhone, error |-> "Phone number is empty"]
    ELSE LET digits == StripNonDigits(phone_number)
         IN  IF StartsWith(digits, <<"2", "5", "4">>) /\ Len(digits) = 12
             THEN [number |-> digits, error |-> ""]
             ELSE IF StartsWith(digits, <<"0", "7">>) /\ Len(digits) = 10
             THEN [number |-> <<"2", "5", "4">> \o Tail(digits), error |-> ""]
             ELSE IF StartsWith(digits, <<"7">>) /\ Len(digits) = 9
             THEN [number |-> <<"2", "5", "4">> \o digits, error |-> ""]
             ELSE [number |-> NoPhone, error |-> "Invalid phone format"]

clean_phone_number(phone_number) ==
    IF phone_number = NoPhone
    THEN [number |-> NoPhone, error |-> "Phone number is empty"]
    ELSE LET digits == StripNonDigits(phone_number)
         IN  IF StartsWith(digits, <<"2", "5", "4", "7">>) /\ Len(digits) = 12
             THEN [number |-> digits, error |-> ""]
             ELSE IF StartsWith(digits, <<"0", "7">>) /\ Len(digits) = 10
             THEN [number |-> <<"2", "5", "4">> \o Tail(digits), error |-> ""]
             ELSE IF StartsWith(digits, <<"7">>) /\ Len(digits) = 9
             THEN [number |-> <<"2", "5", "4">> \o digits, error |-> ""]
             ELSE IF StartsWith(digits, <<"+", "2", "5", "4", "7">>) /\ Len(digits) = 13
             THEN [number |-> Tail(digits), error |-> ""]
             ELSE [number |-> NoPhone, error |-> "Invalid phone format"]

(***************************************************************************)
(* students/serializers.py : StudentSerializer._format_phone_for_sms.      *)
(* Returns the formatted number, or NoPhone for None.                      *)
(***************************************************************************)
format_phone_for_sms(phone) ==
    IF phone = NoPhone
    THEN NoPhone
    ELSE LET digits == StripNonDigits(phone)
         IN  IF StartsWith(digits, <<"2", "5", "4", "7">>) /\ Len(digits) = 12
             THEN digits
             ELSE IF StartsWith(digits, <<"0", "7">>) /\ Len(digits) = 10
                     /\ digits[2] = "7"
             THEN <<"2", "5", "4">> \o Tail(digits)
             ELSE IF StartsWith(digits, <<"7">>) /\ Len(digits) = 9
             THEN <<"2", "5", "4">> \o digits
             ELSE IF StartsWith(digits, <<"2", "5", "4">>) /\ Len(digits) = 12
             THEN digits
             ELSE NoPhone

(***************************************************************************)
(* The provider's reply to one HTTP request, as send_via_blessed_texts     *)
(* distinguishes it (students/sms.py lines 93-127):                        *)
(*   kind  "http" | "timeout" | "connection" | "error"                     *)
(*   http  the HTTP status code of an "http" reply                         *)
(*   body  "list" (non-empty list of objects), "dict", "empty_list",       *)
(*         "list_other" (list whose first element is not an object),       *)
(*         "other" (any other JSON value), "invalid_json"                  *)
(*   code  the status_code field of the object                             *)
(***************************************************************************)
Reply(kind, http, body, code) ==
    [kind |-> kind, http |-> http, body |-> body, code |-> code]

ReplySent == Reply("http", 200, "list", "1000")
ReplyTimeout == Reply("timeout", 0, "other", "")

Replies ==
    { ReplySent, ReplyTimeout,
      Reply("http", 200, "list", "1004"),
      Reply("http", 200, "dict", "1000"),
      Reply("http", 200, "dict", "1004"),
      Reply("http", 200, "empty_list", ""),
      Reply("http", 200, "list_other", ""),
      Reply("http", 200, "other", ""),
      Reply("http", 200, "invalid_json", ""),
      Reply("http", 201, "list", "1000"),
      Reply("http", 500, "other", ""),
      Reply("connection", 0, "other", ""),
      Reply("error", 0, "other", "") }

(***************************************************************************)
(* A message is its Python type and its length: request.data['message']    *)
(* may be any JSON value, and len() of a JSON number raises TypeError.     *)
(***************************************************************************)
Message(is_str, len) == [is_str |-> is_str, len |-> len]

\* Result of one send: ok/detail are the returned pair, raised tells that
\* the call raised instead of returning, network that an HTTP request was
\* issued, msg_len the length of the message handed to the provider.
SendResult(ok, raised, provider, network, msg_len, detail) ==
    [ok |-> ok, raised |-> raised, provider |-> provider,
     network |-> network, msg_len |-> msg_len, detail |-> detail]

(***************************************************************************)
(* students/sms.py : send_via_blessed_texts.                               *)
(***************************************************************************)
send_via_blessed_texts(phone_number, message, cfg, reply) ==
    IF cfg.BLESSED_TEXTS_API_KEY = ""
    THEN SendResult(FALSE, FALSE, "blessed_texts", FALSE, 0,
                    "Blessed Texts API key not configured")
    ELSE IF ~(StartsWith(phone_number, <<"2", "5", "4", "7">>)
              /\ Len(phone_number) = 12)
    THEN SendResult(FALSE, FALSE, "blessed_texts", FALSE, 0,
                    "Invalid phone format. Must be 2547XXXXXXXX")
    ELSE IF ~message.is_str
    THEN \* len(message) raises TypeError before the try block
         SendResult(FALSE, TRUE, "blessed_texts", FALSE, 0, "TypeError")
    ELSE LET sent_len == IF message.len > 160 THEN 157 + 3 ELSE message.len
             R(ok, detail) ==
                 SendResult(ok, FALSE, "blessed_texts", TRUE, sent_len, detail)
         IN  CASE reply.kind = "timeout" -> R(FALSE, "Request timeout")
               [] reply.kind = "connection" -> R(FALSE, "Connection error")
               [] reply.kind = "error" -> R(FALSE, "Error")
               [] OTHER ->
                    IF reply.http = 200
                    THEN CASE reply.body = "invalid_json" ->
                                  R(FALSE, "Invalid JSON response")
                           [] reply.body = "list" ->
                                  IF reply.code = "1000"
                                  THEN R(TRUE, "data")
                                  ELSE R(FALSE, "status_desc")
                           [] reply.body = "list_other" ->
                                  \* data[0].get raises AttributeError,
                                  \* caught by except Exception
                                  R(FALSE, "Error")
                           [] reply.body = "dict" /\ reply.code = "1000" ->
                                  R(TRUE, "data")
                           [] OTHER -> R(FALSE, "Unexpected response")
                    ELSE R(FALSE, "HTTP error")

(***************************************************************************)
(* students/sms.py : send_sms_notification.                                *)
(***************************************************************************)
send_sms_notification(phone_number, message, cfg, reply) ==
    LET cleaned == clean_phone_number(phone_number)
    IN  IF cleaned.error # ""
        THEN SendResult(FALSE, FALSE, "none", FALSE, 0, "Phone validation failed")
        ELSE IF cfg.SMS_PROVIDER = "blessed_texts"
        THEN send_via_blessed_texts(cleaned.number, message, cfg, reply)
        ELSE SendResult(TRUE, FALSE, "log", FALSE, message.len, "Running in LOG mode")

(***************************************************************************)
(* The persistent store: students maps the primary key of every stored     *)
(* row to its columns (students/models.py : Student).  name, institution,  *)
(* ward, date_applied, created_at and updated_at take no part in the       *)
(* lifecycle and are left out.                                             *)
(***************************************************************************)
Get(data, key, default) == IF key \in DOMAIN data THEN data[key] ELSE default

\* Column defaults of a new row: status='pending', sms_status='not_sent',
\* nullable columns null, course blank.
NewStudent ==
    [registration_no |-> "", phone |-> NoPhone, guardian_phone |-> NoPhone,
     education_level |-> "", course |-> "", year |-> "", amount |-> 0,
     status |-> "pending", sms_status |-> "not_sent",
     sms_sent_at |-> NoDate, sms_sent_by |-> NoUser,
     rejection_reason |-> NoReason, date_processed |-> NoDate,
     created_by |-> NoUser, updated_by |-> NoUser]

StudentFields == DOMAIN NewStudent

\* setattr(instance, attr, value) for every supplied key
SetAttrs(student, data) ==
    [f \in StudentFields |-> IF f \in DOMAIN data THEN data[f] ELSE student[f]]

(***************************************************************************)
(* students/models.py : Student.save.  The row that is written.            *)
(***************************************************************************)
\* a save that marks a record as not notified whenever it stamps
\* date_processed
save_resets_sms_status(student, t) ==
    LET s1 == IF student.education_level = "high_school"
              THEN [student EXCEPT !.course = ""]
              ELSE student
    IN  IF s1.status \in {"approved", "disbursed", "rejected"}
        THEN [s1 EXCEPT !.date_processed = t, !.sms_status = "not_sent"]
        ELSE s1

save(student, t) ==
    LET s1 == IF student.education_level = "high_school"
              THEN [student EXCEPT !.course = ""]
              ELSE student
    IN  IF s1.status \in {"approved", "disbursed", "rejected"}
           /\ s1.date_processed = NoDate
        THEN [s1 EXCEPT !.date_processed = t]
        ELSE s1

(***************************************************************************)
(* students/models.py : Student.can_send_sms.                              *)
(***************************************************************************)
\* a gate that lets an already notified record through
can_send_sms_ignores_sent(student) ==
    IF student.phone = NoPhone /\ student.guardian_phone = NoPhone
    THEN [ok |-> FALSE, reason |-> "No phone number available"]
    ELSE IF student.status # "approved"
    THEN [ok |-> FALSE, reason |-> "Student must be approved to send SMS"]
    ELSE [ok |-> TRUE, reason |-> "OK"]

can_send_sms(student) ==
    IF student.phone = NoPhone /\ student.guardian_phone = NoPhone
    THEN [ok |-> FALSE, reason |-> "No phone number available"]
    ELSE IF student.status # "approved"
    THEN [ok |-> FALSE, reason |-> "Student must be approved to send SMS"]
    ELSE IF student.sms_status = "sent"
    THEN [ok |-> FALSE, reason |-> "SMS already sent"]
    ELSE [ok |-> TRUE, reason |-> "OK"]

(***************************************************************************)
(* What a handler leaves behind for its caller: the operation and its      *)
(* arguments (ids, actor, data), the time and the store as they were when  *)
(* the request arrived, the sends it made in order, the rows whose write   *)
(* raised, and the response.                                               *)
(***************************************************************************)
Outcome(op, ids, actor, data, calls, http, detail, results, success_count, failure_count) ==
    [op |-> op, ids |-> ids, actor |-> actor, data |-> data,
     at |-> now, before |-> students,
     calls |-> calls, unsaved |-> {}, http |-> http, detail |-> detail,
     errors |-> {}, results |-> results,
     success_count |-> success_count, failure_count |-> failure_count]

\* A response without sends or per-recipient results.
Plain(op, ids, actor, data, http, detail) ==
    Outcome(op, ids, actor, data, << >>, http, detail, << >>, 0, 0)

\* A 400 response carrying field-scoped validation errors.
Invalid(op, ids, actor, data, errors) ==
    [Plain(op, ids, actor, data, 400, "ValidationError") EXCEPT !.errors = errors]

\* An empty request body.
NoData == << >>

\* get_object(): the row exists (Http404 otherwise)
Exists(id) == id \in DOMAIN students

(***************************************************************************)
(* students/views.py : StudentViewSet.approve.                             *)
(***************************************************************************)
\* approve without its state check
already_approved_unchecked(student) == FALSE

\* the only state check of approve (line 48)
already_approved(student) == student.status = "approved"

approve(id, actor) ==
    /\ now < MaxClock
    /\ now' = now + 1
    /\ UNCHANGED settings
    /\ IF ~Exists(id)
       THEN /\ last' = Plain("approve", {id}, actor, NoData, 404, "Not found.")
            /\ UNCHANGED students
       ELSE IF already_approved(students[id])
       THEN /\ last' = Plain("approve", {id}, actor, NoData, 400,
                             "Student is already approved.")
            /\ UNCHANGED students
       ELSE /\ students' = [students EXCEPT ![id] =
                              save([@ EXCEPT !.status = "approved",
                                             !.date_processed = now,
                                             !.updated_by = actor], now)]
            /\ last' = Plain("approve", {id}, actor, NoData, 200, "")

(***************************************************************************)
(* students/views.py : StudentViewSet.reject.  reason is                   *)
(* request.data.get('reason', ''): "" when missing or empty.               *)
(***************************************************************************)
\* reject without its reason check
reason_missing_unchecked(reason) == FALSE

\* "if not reason" (line 70)
reason_missing(reason) == reason = ""

reject(id, actor, reason) ==
    /\ now < MaxClock
    /\ now' = now + 1
    /\ UNCHANGED settings
    /\ IF ~Exists(id)
       THEN /\ last' = Plain("reject", {id}, actor, [reason |-> reason], 404, "Not found.")
            /\ UNCHANGED students
       ELSE IF reason_missing(reason)
       THEN /\ last' = Plain("reject", {id}, actor, [reason |-> reason], 400,
                             "Rejection reason is required.")
            /\ UNCHANGED students
       ELSE /\ students' = [students EXCEPT ![id] =
                              save([@ EXCEPT !.status = "rejected",
                                             !.date_processed = now,
                                             !.rejection_reason = reason,
                                             !.updated_by = actor], now)]
            /\ last' = Plain("reject", {id}, actor, [reason |-> reason], 200, "")

(***************************************************************************)
(* Recipients of one record (students/views.py lines 100-118 and           *)
(* 246-263): phones_to_send in order, then the unique_phones dict, which   *)
(* is keyed by the stored phone string and keeps insertion order.  The     *)
(* type of an entry is kept as the list of its labels; the code tests      *)
(* "phone_type not in existing_type" on the joined string, which for the   *)
(* labels student and guardian is membership in that list.                 *)
(***************************************************************************)
phones_to_send(student) ==
    (IF student.phone # NoPhone
     THEN << [type |-> "student", phone |-> student.phone] >> ELSE << >>)
    \o
    (IF student.guardian_phone # NoPhone
     THEN << [type |-> "guardian", phone |-> student.guardian_phone] >> ELSE << >>)

HasLabel(labels, l) == \E i \in DOMAIN labels : labels[i] = l

RECURSIVE dedup_phones(_, _)
dedup_phones(todo, acc) ==
    IF todo = << >>
    THEN acc
    ELSE LET e == Head(todo)
             hit == {i \in DOMAIN acc : acc[i].phone = e.phone}
         IN  IF hit = {}
             THEN dedup_phones(Tail(todo),
                               Append(acc, [phone |-> e.phone, labels |-> <<e.type>>]))
             ELSE LET i == CHOOSE j \in hit : TRUE
                  IN  IF ~HasLabel(acc[i].labels, e.type)
                      THEN dedup_phones(Tail(todo),
                                        [acc EXCEPT ![i].labels = Append(@, e.type)])
                      ELSE dedup_phones(Tail(todo), acc)

unique_phones(student) == dedup_phones(phones_to_send(student), << >>)

\* f"{existing_type}/{phone_type}"
RECURSIVE TypeTag(_)
TypeTag(labels) ==
    IF Len(labels) = 1
    THEN labels[1]
    ELSE TypeTag(SubSeq(labels, 1, Len(labels) - 1)) \o "/" \o labels[Len(labels)]

\* a send loop that gives up at the first recipient whose send fails
send_loop_stops_at_failure(id, unique, message, cfg, replies) ==
    LET r(i) == send_sms_notification(unique[i].phone, message, cfg, replies[i])
        failed(i) == r(i).raised \/ ~r(i).ok
        stop == IF \E i \in 1..Len(unique) : failed(i)
                THEN CHOOSE i \in 1..Len(unique) :
                        failed(i) /\ \A j \in 1..(i - 1) : ~failed(j)
                ELSE Len(unique)
    IN  [i \in 1..stop |->
            [student |-> id, phone |-> unique[i].phone,
             type |-> TypeTag(unique[i].labels),
             number |-> clean_phone_number(unique[i].phone).number,
             provider |-> r(i).provider, network |-> r(i).network,
             raised |-> r(i).raised,
             status |-> IF failed(i) THEN "failed" ELSE "success"]]

(***************************************************************************)
(* The send loop of one record (students/views.py lines 132-167 and        *)
(* 280-312): one send_sms_notification call per entry of unique_phones,    *)
(* in order; replies[i] is what the provider answers to the i-th call if   *)
(* that call reaches it.  Each element records the call and what the loop  *)
(* appended to results for it (status).                                    *)
(***************************************************************************)
send_loop(id, unique, message, cfg, replies) ==
    [i \in 1..Len(unique) |->
        LET r == send_sms_notification(unique[i].phone, message, cfg, replies[i])
        IN  [student |-> id, phone |-> unique[i].phone,
             type |-> TypeTag(unique[i].labels),
             number |-> clean_phone_number(unique[i].phone).number,
             provider |-> r.provider, network |-> r.network,
             raised |-> r.raised,
             status |-> IF ~r.raised /\ r.ok THEN "success" ELSE "failed"]]

CountStatus(calls, st) == Cardinality({i \in DOMAIN calls : calls[i].status = st})

\* the results list of the response: one entry per call
PhoneResults(calls) ==
    [i \in DOMAIN calls |->
        [phone |-> calls[i].phone, type |-> calls[i].type, status |-> calls[i].status]]

\* an aggregation that reports sent as soon as one send succeeded
aggregate_sms_status_no_partial(success_count, failure_count) ==
    IF success_count > 0 THEN "sent" ELSE "failed"

(***************************************************************************)
(* The aggregation rule (students/views.py lines 170-176 and 315-323).     *)
(***************************************************************************)
aggregate_sms_status(success_count, failure_count) ==
    IF success_count > 0
    THEN IF failure_count = 0 THEN "sent" ELSE "partial"
    ELSE "failed"

(***************************************************************************)
(* students/views.py : StudentViewSet.send_sms.  message is the message    *)
(* in effect (the caller's override, else the rendered template).          *)
(***************************************************************************)
\* send_sms without its phone check
no_phone_available_unchecked(student) == FALSE

\* "if not student.phone and not student.guardian_phone" (line 94)
no_phone_available(student) ==
    student.phone = NoPhone /\ student.guardian_phone = NoPhone

send_sms(id, actor, message, replies) ==
    /\ now < MaxClock
    /\ now' = now + 1
    /\ UNCHANGED settings
    /\ IF ~Exists(id)
       THEN /\ last' = Plain("send_sms", {id}, actor, NoData, 404,
                             "Not found.")
            /\ UNCHANGED students
       ELSE IF no_phone_available(students[id])
       THEN /\ last' = Plain("send_sms", {id}, actor, NoData, 400,
                             "No phone number available for this student")
            /\ UNCHANGED students
       ELSE LET calls == send_loop(id, unique_phones(students[id]), message,
                                   settings, replies)
                success_count == CountStatus(calls, "success")
                failure_count == CountStatus(calls, "failed")
            IN  /\ students' = [students EXCEPT ![id] =
                       save([@ EXCEPT
                               !.sms_status = aggregate_sms_status(success_count,
                                                                   failure_count),
                               !.sms_sent_at = now,
                               !.sms_sent_by = actor], now)]
                /\ last' = Outcome("send_sms", {id}, actor, NoData, calls,
                                   IF success_count > 0
                                   THEN IF failure_count > 0 THEN 207 ELSE 200
                                   ELSE 500,
                                   IF success_count > 0
                                   THEN "SMS sent"
                                   ELSE "Failed to send SMS to any phone number",
                                   PhoneResults(calls), success_count, failure_count)

(***************************************************************************)
(* students/views.py : StudentViewSet.bulk_send_sms.                       *)
(*                                                                         *)
(* The queryset is ordered by Meta.ordering = ['-created_at'], newest      *)
(* first; primary keys are assigned in creation order.                     *)
(***************************************************************************)
RECURSIVE NewestFirst(_)
NewestFirst(S) ==
    IF S = {}
    THEN << >>
    ELSE LET m == CHOOSE x \in S : \A y \in S : y <= x
         IN  <<m>> \o NewestFirst(S \ {m})

\* the queryset without its status filter
approved_students_any_status(student_ids) == student_ids \cap DOMAIN students

\* self.get_queryset().filter(id__in=student_ids, status='approved')
approved_students(student_ids) ==
    {id \in student_ids \cap DOMAIN students : students[id].status = "approved"}

(***************************************************************************)
(* The body of "for student in students" (lines 241-337), folded over the  *)
(* queryset.  acc carries the rows written so far, the sends made, the     *)
(* student_results list, the two overall counters, and whether an          *)
(* exception has left the loop.  replies[k] answers the k-th send of the   *)
(* request; fail_at is the record whose student.save() raises (a store     *)
(* error), 0 when none does.                                               *)
(***************************************************************************)
\* a bulk counter that counts a record as succeeded only if no send failed
counts_as_success_all_sent(sent, failed) == sent > 0 /\ failed = 0

\* "if student_phones_sent > 0: ... overall_success += 1" (lines 315-323)
counts_as_success(sent, failed) == sent > 0

\* a skip that reports the record without counting it
skip_without_phones_uncounted(acc, id) ==
    [acc EXCEPT
       !.results = Append(@, [student_id |-> id, status |-> "failed",
                              error |-> "No phone numbers available",
                              phones_sent |-> 0, phones_failed |-> 0])]

\* "if not unique_phones: ... overall_failure += 1; continue" (lines 265-273)
skip_without_phones(acc, id) ==
    [acc EXCEPT
       !.results = Append(@, [student_id |-> id, status |-> "failed",
                              error |-> "No phone numbers available",
                              phones_sent |-> 0, phones_failed |-> 0]),
       !.failure = @ + 1]

RECURSIVE bulk_loop(_, _, _, _, _, _, _, _)
bulk_loop(order, acc, actor, message, cfg, replies, fail_at, t) ==
    IF order = << >> \/ acc.raised
    THEN acc
    ELSE LET id == Head(order)
             student == acc.rows[id]
             unique == unique_phones(student)
             calls == send_loop(id, unique, message, cfg,
                                SubSeq(replies, Len(acc.calls) + 1,
                                       Len(acc.calls) + Len(unique)))
             sent == CountStatus(calls, "success")
             failed == CountStatus(calls, "failed")
         IN  IF unique = << >>
             THEN bulk_loop(Tail(order), skip_without_phones(acc, id),
                            actor, message, cfg, replies, fail_at, t)
             ELSE IF fail_at = id
             THEN \* student.save() raises: the exception leaves the loop
                  [acc EXCEPT !.calls = @ \o calls, !.raised = TRUE]
             ELSE bulk_loop(Tail(order),
                    [acc EXCEPT
                       !.rows[id] = save([student EXCEPT
                                            !.sms_status = aggregate_sms_status(sent, failed),
                                            !.sms_sent_at = t,
                                            !.sms_sent_by = actor], t),
                       !.calls = @ \o calls,
                       !.results = Append(@, [student_id |-> id,
                                              status |-> IF sent > 0 THEN "sent" ELSE "failed",
                                              error |-> "",
                                              phones_sent |-> sent,
                                              phones_failed |-> failed]),
                       !.success = IF counts_as_success(sent, failed) THEN @ + 1 ELSE @,
                       !.failure = IF counts_as_success(sent, failed) THEN @ ELSE @ + 1],
                    actor, message, cfg, replies, fail_at, t)

bulk_send_sms(student_ids, actor, message, replies, fail_at) ==
    /\ now < MaxClock
    /\ now' = now + 1
    /\ UNCHANGED settings
    /\ IF student_ids = {}
       THEN /\ last' = Plain("bulk_send_sms", student_ids, actor,
                             NoData, 400,
                             "No student IDs provided.")
            /\ UNCHANGED students
       ELSE IF approved_students(student_ids) = {}
       THEN /\ last' = Plain("bulk_send_sms", student_ids, actor,
                             NoData, 200,
                             "No approved students found with the provided IDs.")
            /\ UNCHANGED students
       ELSE LET done == bulk_loop(NewestFirst(approved_students(student_ids)),
                                  [rows |-> students, calls |-> << >>,
                                   results |-> << >>, success |-> 0,
                                   failure |-> 0, raised |-> FALSE],
                                  actor, message, settings, replies, fail_at, now)
            IN  /\ students' = done.rows
                /\ last' = IF done.raised
                           THEN \* except Exception (lines 348-353)
                                [Outcome("bulk_send_sms", student_ids, actor,
                                         NoData, done.calls, 500,
                                         "Internal server error", << >>, 0, 0)
                                   EXCEPT !.unsaved = {fail_at}]
                           ELSE Outcome("bulk_send_sms", student_ids, actor,
                                        NoData, done.calls, 200,
                                        "Bulk SMS operation completed.",
                                        done.results, done.success, done.failure)

(***************************************************************************)
(* students/serializers.py : StudentSerializer.                            *)
(*                                                                         *)
(* instance is the primary key of the row being updated, 0 for a create.   *)
(* Writable fields are those of Meta.fields that are not in                *)
(* Meta.read_only_fields.                                                  *)
(***************************************************************************)
WritableFields ==
    {"registration_no", "phone", "guardian_phone", "education_level", "course",
     "year", "amount", "status", "sms_status", "date_processed"}

\* Fields a non-partial request must carry (no default, not blank).
RequiredFields ==
    {"registration_no", "guardian_phone", "education_level", "year", "amount"}

\* validate_registration_no (and the unique validator of the column)
validate_registration_no(value, instance) ==
    ~\E other \in DOMAIN students :
        other # instance /\ students[other].registration_no = value

\* validate_year / validate_course read the education level of the stored
\* instance on update, of the request on create
level_for_validation(data, instance) ==
    IF instance # 0
    THEN students[instance].education_level
    ELSE Get(data, "education_level", "")

validate_year(value, level) ==
    IF level = ""
    THEN TRUE
    ELSE IF level = "high_school"
    THEN value \in {"Form 1", "Form 2", "Form 3", "Form 4"}
    ELSE IF level \in {"college", "university"}
    THEN value \in {"1st Year", "2nd Year", "3rd Year", "4th Year"}
    ELSE TRUE

validate_course(value, level) ==
    IF level = ""
    THEN TRUE
    ELSE IF level = "high_school" /\ value # ""
    THEN FALSE
    ELSE IF level \in {"college", "university"} /\ value = ""
    THEN FALSE
    ELSE TRUE

\* Field-level validation: the set of fields reported in error.
field_errors(data, instance, partial) ==
    LET level == level_for_validation(data, instance)
        bad(f) ==
            CASE f = "registration_no" ->
                     data[f] = "" \/ ~validate_registration_no(data[f], instance)
              [] f = "phone" ->
                     \/ Len(data[f]) > 20
                     \/ data[f] # NoPhone /\ format_phone_for_sms(data[f]) = NoPhone
              [] f = "guardian_phone" ->
                     \/ Len(data[f]) > 20
                     \/ data[f] = NoPhone
                     \/ format_phone_for_sms(data[f]) = NoPhone
              [] f = "education_level" -> data[f] \notin EDUCATION_LEVEL_CHOICES
              [] f = "course" -> ~validate_course(data[f], level)
              [] f = "year" ->
                     data[f] \notin YEAR_CHOICES \/ ~validate_year(data[f], level)
              [] f = "status" -> data[f] \notin STATUS_CHOICES
              [] f = "sms_status" -> data[f] \notin SMS_STATUS_CHOICES
              [] OTHER -> FALSE
    IN  {f \in DOMAIN data \cap WritableFields : bad(f)}
        \cup (IF partial THEN {} ELSE RequiredFields \ DOMAIN data)

\* The values the field validators return: phones in formatted form,
\* read-only and unknown keys dropped.
to_internal_value(data) ==
    [f \in DOMAIN data \cap WritableFields |->
        IF f \in {"phone", "guardian_phone"} /\ data[f] # NoPhone
        THEN format_phone_for_sms(data[f])
        ELSE data[f]]

\* StudentSerializer.validate: the object-level errors ...
validate_errors(data) ==
    (IF "amount" \in DOMAIN data /\ data["amount"] <= 0 THEN {"amount"} ELSE {})
    \cup
    (IF /\ Get(data, "phone", NoPhone) # NoPhone
        /\ Get(data, "guardian_phone", NoPhone) # NoPhone
        /\ data["phone"] = data["guardian_phone"]
     THEN {"phone", "guardian_phone"} ELSE {})

\* ... and the data it returns (course blanked for high school)
validate(data) ==
    IF Get(data, "education_level", "") = "high_school"
    THEN [f \in DOMAIN data \cup {"course"} |-> IF f = "course" THEN "" ELSE data[f]]
    ELSE data

\* serializer.is_valid(): field errors, else object-level errors
serializer_errors(data, instance, partial) ==
    IF field_errors(data, instance, partial) # {}
    THEN field_errors(data, instance, partial)
    ELSE validate_errors(to_internal_value(data))

With(data, key, value) ==
    [f \in DOMAIN data \cup {key} |-> IF f = key THEN value ELSE data[f]]

(***************************************************************************)
(* ModelViewSet.create with StudentSerializer.create.  The new row gets    *)
(* the next primary key.                                                   *)
(***************************************************************************)
NextId == Cardinality(DOMAIN students) + 1

create(data, actor) ==
    /\ now < MaxClock
    /\ now' = now + 1
    /\ UNCHANGED settings
    /\ IF serializer_errors(data, 0, FALSE) # {}
       THEN /\ last' = Invalid("create", {}, actor, data,
                               serializer_errors(data, 0, FALSE))
            /\ UNCHANGED students
       ELSE /\ NextId \in Ids
            /\ students' = (NextId :> save(SetAttrs(NewStudent,
                                With(validate(to_internal_value(data)),
                                     "created_by", actor)), now)) @@ students
            /\ last' = Plain("create", {NextId}, actor, data, 201, "")

(***************************************************************************)
(* ModelViewSet.update / partial_update with StudentSerializer.update.     *)
(***************************************************************************)
update(id, data, partial, actor) ==
    /\ now < MaxClock
    /\ now' = now + 1
    /\ UNCHANGED settings
    /\ IF ~Exists(id)
       THEN /\ last' = Plain("update", {id}, actor, data, 404, "Not found.")
            /\ UNCHANGED students
       ELSE IF serializer_errors(data, id, partial) # {}
       THEN /\ last' = Invalid("update", {id}, actor, data,
                               serializer_errors(data, id, partial))
            /\ UNCHANGED students
       ELSE LET validated == With(validate(to_internal_value(data)),
                                  "updated_by", actor)
                final == IF Get(validated, "education_level", "") = "high_school"
                         THEN With(validated, "course", "")
                         ELSE validated
            IN  /\ students' = [students EXCEPT ![id] = save(SetAttrs(@, final), now)]
                /\ last' = Plain("update", {id}, actor, data, 200, "")

(***************************************************************************)
(* ModelViewSet.create as two steps of one worker, for requests that are   *)
(* served concurrently: serializer.is_valid() reads the store, and         *)
(* serializer.save() inserts the row later, when other workers may have    *)
(* written in between.  There is no transaction around the two             *)
(* (ATOMIC_REQUESTS is not set).                                           *)
(***************************************************************************)
\* a store without the unique index on registration_no
unique_violation_unenforced(value) == FALSE

\* unique=True of Student.registration_no: the INSERT raises IntegrityError
unique_violation(value) ==
    \E id \in DOMAIN students : students[id].registration_no = value

\* serializer.is_valid(raise_exception=True)
create_validate(w, data, actor) ==
    /\ now < MaxClock
    /\ workers[w] = Idle
    /\ UNCHANGED <<students, settings>>
    /\ IF serializer_errors(data, 0, FALSE) # {}
       THEN /\ now' = now + 1
            /\ last' = Invalid("create", {}, actor, data,
                               serializer_errors(data, 0, FALSE))
            /\ UNCHANGED workers
       ELSE /\ workers' = [workers EXCEPT ![w] = [data |-> data, actor |-> actor]]
            /\ UNCHANGED <<now, last>>

\* StudentSerializer.create: super().create, with the IntegrityError that
\* names registration_no turned into a field-scoped ValidationError
create_insert(w) ==
    /\ now < MaxClock
    /\ workers[w] # Idle
    /\ now' = now + 1
    /\ workers' = [workers EXCEPT ![w] = Idle]
    /\ UNCHANGED settings
    /\ LET data == workers[w].data
           actor == workers[w].actor
       IN  IF unique_violation(data.registration_no)
           THEN /\ last' = [Invalid("create", {}, actor, data, {"registration_no"})
                               EXCEPT !.detail = "IntegrityError"]
                /\ UNCHANGED students
           ELSE /\ NextId \in Ids
                /\ students' = (NextId :> save(SetAttrs(NewStudent,
                                    With(validate(to_internal_value(data)),
                                         "created_by", actor)), now)) @@ students
                /\ last' = Plain("create", {NextId}, actor, data, 201, "")

(***************************************************************************)
(* The detail actions send_sms, approve and reject as two steps of one     *)
(* worker, for requests that are served concurrently: self.get_object()    *)
(* reads the whole row into an instance (views.py lines 46, 67, 91), and   *)
(* the rest of the handler works on that instance and ends in              *)
(* student.save(), which writes every column of the row (no update_fields, *)
(* no select_for_update, no transaction).                                  *)
(***************************************************************************)
get_object(w, op, id, actor, reason) ==
    /\ now < MaxClock
    /\ workers[w] = Idle
    /\ UNCHANGED <<students, settings>>
    /\ IF ~Exists(id)
       THEN /\ now' = now + 1
            /\ last' = Plain(op, {id}, actor, NoData, 404, "Not found.")
            /\ UNCHANGED workers
       ELSE /\ workers' = [workers EXCEPT ![w] =
                             [op |-> op, id |-> id, actor |-> actor,
                              reason |-> reason, student |-> students[id]]]
            /\ UNCHANGED <<now, last>>

\* the handler has its instance and has not answered yet
Holds(w, op) == workers[w] # Idle /\ workers[w].op = op

\* send_sms after get_object (lines 93-180)
send_sms_finish(w, message, replies) ==
    /\ now < MaxClock
    /\ Holds(w, "send_sms")
    /\ now' = now + 1
    /\ workers' = [workers EXCEPT ![w] = Idle]
    /\ UNCHANGED settings
    /\ LET id == workers[w].id
           actor == workers[w].actor
           student == workers[w].student
       IN  IF no_phone_available(student)
           THEN /\ last' = Plain("send_sms", {id}, actor, NoData, 400,
                                 "No phone number available for this student")
                /\ UNCHANGED students
           ELSE LET calls == send_loop(id, unique_phones(student), message,
                                       settings, replies)
                    success_count == CountStatus(calls, "success")
                    failure_count == CountStatus(calls, "failed")
                IN  /\ students' = [students EXCEPT ![id] =
                           save([student EXCEPT
                                   !.sms_status = aggregate_sms_status(success_count,
                                                                       failure_count),
                                   !.sms_sent_at = now,
                                   !.sms_sent_by = actor], now)]
                    /\ last' = Outcome("send_sms", {id}, actor, NoData, calls,
                                       IF success_count > 0
                                       THEN IF failure_count > 0 THEN 207 ELSE 200
                                       ELSE 500,
                                       IF success_count > 0
                                       THEN "SMS sent"
                                       ELSE "Failed to send SMS to any phone number",
                                       PhoneResults(calls), success_count, failure_count)

\* approve after get_object (lines 48-58)
approve_finish(w) ==
    /\ now < MaxClock
    /\ Holds(w, "approve")
    /\ now' = now + 1
    /\ workers' = [workers EXCEPT ![w] = Idle]
    /\ UNCHANGED settings
    /\ LET id == workers[w].id
           actor == workers[w].actor
           student == workers[w].student
       IN  IF already_approved(student)
           THEN /\ last' = Plain("approve", {id}, actor, NoData, 400,
                                 "Student is already approved.")
                /\ UNCHANGED students
           ELSE /\ students' = [students EXCEPT ![id] =
                                  save([student EXCEPT !.status = "approved",
                                                       !.date_processed = now,
                                                       !.updated_by = actor], now)]
                /\ last' = Plain("approve", {id}, actor, NoData, 200, "")

\* reject after get_object (lines 69-83)
reject_finish(w) ==
    /\ now < MaxClock
    /\ Holds(w, "reject")
    /\ now' = now + 1
    /\ workers' = [workers EXCEPT ![w] = Idle]
    /\ UNCHANGED settings
    /\ LET id == workers[w].id
           actor == workers[w].actor
           reason == workers[w].reason
           student == workers[w].student
       IN  IF reason_missing(reason)
           THEN /\ last' = Plain("reject", {id}, actor, [reason |-> reason], 400,
                                 "Rejection reason is required.")
                /\ UNCHANGED students
           ELSE /\ students' = [students EXCEPT ![id] =
                                  save([student EXCEPT !.status = "rejected",
                                                       !.date_processed = now,
                                                       !.rejection_reason = reason,
                                                       !.updated_by = actor], now)]
                /\ last' = Plain("reject", {id}, actor, [reason |-> reason], 200, "")

(***************************************************************************)
(* students/admin.py : StudentAdmin change form (fieldsets, save_model).   *)
(* The form validates against the model fields only: choices, required     *)
(* guardian_phone, unique registration_no.  No phone formatting.           *)
(***************************************************************************)
admin_form_errors(data, id) ==
    {f \in DOMAIN data :
        CASE f = "registration_no" ->
                 data[f] = "" \/ ~validate_registration_no(data[f], id)
          [] f = "guardian_phone" -> data[f] = NoPhone \/ Len(data[f]) > 20
          [] f = "phone" -> Len(data[f]) > 20
          [] f = "education_level" -> data[f] \notin EDUCATION_LEVEL_CHOICES
          [] f = "year" -> data[f] \notin YEAR_CHOICES
          [] f = "status" -> data[f] \notin STATUS_CHOICES
          [] f = "sms_status" -> data[f] \notin SMS_STATUS_CHOICES
          [] OTHER -> FALSE}

admin_change(id, data, actor) ==
    /\ now < MaxClock
    /\ now' = now + 1
    /\ UNCHANGED settings
    /\ IF ~Exists(id)
       THEN /\ last' = Plain("admin_change", {id}, actor, data, 404, "Not found.")
            /\ UNCHANGED students
       ELSE IF admin_form_errors(data, id) # {}
       THEN /\ last' = Invalid("admin_change", {id}, actor, data,
                               admin_form_errors(data, id))
            /\ UNCHANGED students
       ELSE /\ students' = [students EXCEPT ![id] =
                              save(SetAttrs(@, With(data, "updated_by", actor)), now)]
            /\ last' = Plain("admin_change", {id}, actor, data, 200, "")

(***************************************************************************)
(* students/admin.py : StudentAdmin.approve_selected and reject_selected.  *)
(* queryset.filter(status='pending').update(status=...) is one SQL UPDATE  *)
(* of the status column: Student.save is not called.                       *)
(***************************************************************************)
update_status(ids, status) ==
    [id \in DOMAIN students |->
        IF id \in ids /\ students[id].status = "pending"
        THEN [students[id] EXCEPT !.status = status]
        ELSE students[id]]

approve_selected(ids, actor) ==
    /\ now < MaxClock
    /\ now' = now + 1
    /\ UNCHANGED settings
    /\ students' = update_status(ids, "approved")
    /\ last' = Plain("approve_selected", ids, actor, NoData, 200, "students approved.")

reject_selected(ids, actor) ==
    /\ now < MaxClock
    /\ now' = now + 1
    /\ UNCHANGED settings
    /\ students' = update_status(ids, "rejected")
    /\ last' = Plain("reject_selected", ids, actor, NoData, 200, "students rejected.")

(***************************************************************************)
(* students/admin.py : StudentAdmin.send_sms_selected.  The message is an  *)
(* f-string, always a text.  success is the (bool, text) pair that         *)
(* send_sms_notification returns, and "if success:" tests the pair.        *)
(***************************************************************************)
AdminMessage == Message(TRUE, 150)

\* bool() of a pair: a tuple of two elements is true whatever it holds
pair_is_true(result) == TRUE

\* "student.phone or student.guardian_phone"
phone_or_guardian(student) ==
    IF student.phone # NoPhone THEN student.phone ELSE student.guardian_phone

RECURSIVE send_sms_selected_loop(_, _, _, _, _)
send_sms_selected_loop(order, acc, cfg, replies, t) ==
    IF order = << >>
    THEN acc
    ELSE LET id == Head(order)
             student == acc.rows[id]
             phone == phone_or_guardian(student)
             success == send_sms_notification(phone, AdminMessage, cfg,
                                              replies[Len(acc.calls) + 1])
         IN  IF student.status = "approved" /\ student.sms_status = "not_sent"
                /\ phone # NoPhone
             THEN send_sms_selected_loop(Tail(order),
                    [acc EXCEPT
                       !.calls = Append(@,
                          [student |-> id, phone |-> phone,
                           type |-> IF student.phone # NoPhone
                                    THEN "student" ELSE "guardian",
                           number |-> clean_phone_number(phone).number,
                           provider |-> success.provider,
                           network |-> success.network,
                           raised |-> success.raised,
                           status |-> IF success.ok THEN "success" ELSE "failed"]),
                       !.rows[id] = IF pair_is_true(success)
                                    THEN save([student EXCEPT !.sms_status = "sent"], t)
                                    ELSE student,
                       !.sent = IF pair_is_true(success) THEN @ + 1 ELSE @,
                       !.failed = IF pair_is_true(success) THEN @ ELSE @ + 1],
                    cfg, replies, t)
             ELSE send_sms_selected_loop(Tail(order), acc, cfg, replies, t)

send_sms_selected(ids, actor, replies) ==
    /\ now < MaxClock
    /\ now' = now + 1
    /\ UNCHANGED settings
    /\ LET done == send_sms_selected_loop(NewestFirst(ids \cap DOMAIN students),
                                          [rows |-> students, calls |-> << >>,
                                           sent |-> 0, failed |-> 0],
                                          settings, replies, now)
       IN  /\ students' = done.rows
           /\ last' = Outcome("send_sms_selected", ids, actor, NoData, done.calls,
                              200, "SMS sent", << >>, done.sent, done.failed)

(***************************************************************************)
(* Inputs of the lifecycle specification.                                  *)
(***************************************************************************)
PhoneA == <<"2", "5", "4", "7", "1", "2", "3", "4", "5", "6", "7", "8">>
PhoneALocal == <<"0", "7", "1", "2", "3", "4", "5", "6", "7", "8">>
PhoneB == <<"2", "5", "4", "7", "2", "2", "0", "0", "0", "0", "0", "2">>
PhoneBLocal == <<"0", "7", "2", "2", "0", "0", "0", "0", "0", "2">>
\* a 2541... number: a valid Kenyan mobile prefix outside the 2547 range
PhoneC == <<"2", "5", "4", "1", "1", "2", "3", "4", "5", "6", "7", "8">>
PhoneJunk == <<"a", "b", "c">>

\* django settings: SMS_PROVIDER and BLESSED_TEXTS_API_KEY
Settings ==
    { [SMS_PROVIDER |-> "log", BLESSED_TEXTS_API_KEY |-> ""],
      [SMS_PROVIDER |-> "blessed_texts", BLESSED_TEXTS_API_KEY |-> "key"] }

\* Registration numbers are opaque to the code: a create request carries
\* either the number RegNo(k) of the k-th record to be stored, which is
\* new, or a number that a stored record already has.
RegNo(k) == "R" \o ToString(k)

TakenRegistrationNos == {students[id].registration_no : id \in DOMAIN students}

\* request bodies of createAllocation: a college student, with or without
\* a phone of their own, with or without a status; a body with a guardian
\* phone the serializer refuses; bodies with a registration number in use
CreateBodies ==
    LET base(r, g) == [registration_no |-> r, guardian_phone |-> g,
                       education_level |-> "college", course |-> "BSc",
                       year |-> "1st Year", amount |-> 1000]
        new == RegNo(NextId)
        plain == { base(new, PhoneB), base(new, PhoneC),
                   With(base(new, PhoneB), "phone", PhoneALocal) }
    IN  plain \cup { With(b, "status", "approved") : b \in plain }
              \cup { base(new, PhoneJunk) }
              \cup { base(r, PhoneB) : r \in TakenRegistrationNos }

\* request bodies of updateAllocation
UpdateBodies ==
    { [status |-> "disbursed"], [status |-> "pending"], [sms_status |-> "sent"],
      [phone |-> PhoneB], [phone |-> PhoneC], [phone |-> PhoneJunk] }

\* posted values of the admin change form
AdminBodies == { [phone |-> PhoneBLocal], [guardian_phone |-> NoPhone] }

\* messages in effect: a text, and a JSON number given as message
Messages == { Message(TRUE, 100), Message(FALSE, 0) }

\* what the provider may answer to a request
SpecReplies == { ReplySent, ReplyTimeout }

Reasons == {"", "incomplete"}

\* the sends a notification of the records in S makes: one per entry of
\* unique_phones
RECURSIVE NumSends(_)
NumSends(S) ==
    IF S = {}
    THEN 0
    ELSE LET id == CHOOSE x \in S : TRUE
         IN  Len(unique_phones(students[id])) + NumSends(S \ {id})

\* one provider reply for each of n sends; the log provider never asks
ReplySeqs(n) ==
    IF settings.SMS_PROVIDER = "log"
    THEN {[i \in 1..n |-> ReplySent]}
    ELSE [1..n -> SpecReplies]

(***************************************************************************)
(* The lifecycle specification: an empty store after migration, then any   *)
(* sequence of requests.                                                   *)
(***************************************************************************)
Init ==
    /\ students = << >>
    /\ now = 1
    /\ settings \in Settings
    /\ last = [Plain("init", {}, NoUser, NoData, 0, "") EXCEPT !.at = 0]
    /\ workers = [w \in Workers |-> Idle]

Create ==
    /\ \E data \in CreateBodies, actor \in Users : create(data, actor)
    /\ UNCHANGED workers

Update ==
    /\ \E id \in Ids, data \in UpdateBodies, actor \in Users :
          update(id, data, TRUE, actor)
    /\ UNCHANGED workers

AdminChange ==
    /\ \E id \in Ids, data \in AdminBodies, actor \in Users :
          admin_change(id, data, actor)
    /\ UNCHANGED workers

Approve ==
    /\ \E id \in Ids, actor \in Users : approve(id, actor)
    /\ UNCHANGED workers

Reject ==
    /\ \E id \in Ids, actor \in Users, reason \in Reasons : reject(id, actor, reason)
    /\ UNCHANGED workers

SendSms ==
    /\ \E id \in Ids, actor \in Users, message \in Messages :
          \E replies \in ReplySeqs(NumSends({id} \cap DOMAIN students)) :
              send_sms(id, actor, message, replies)
    /\ UNCHANGED workers

BulkSendSms ==
    /\ \E student_ids \in SUBSET Ids, actor \in Users, message \in Messages :
          \E replies \in ReplySeqs(NumSends(approved_students(student_ids))),
             fail_at \in {0} \cup approved_students(student_ids) :
              bulk_send_sms(student_ids, actor, message, replies, fail_at)
    /\ UNCHANGED workers

Next ==
    \/ Create
    \/ Update
    \/ AdminChange
    \/ Approve
    \/ Reject
    \/ SendSms
    \/ BulkSendSms

Spec == Init /\ [][Next]_vars

TypeOK ==
    /\ DOMAIN students \subseteq Ids
    /\ \A id \in DOMAIN students :
          /\ students[id].status \in STATUS_CHOICES
          /\ students[id].sms_status \in SMS_STATUS_CHOICES
    /\ now \in 1..MaxClock
    /\ DOMAIN workers = Workers

(***************************************************************************)
(* The record-keeping specification: create and update requests only,      *)
(* served by concurrent workers, with bodies that change every field the   *)
(* invariants of a record speak about.                                     *)
(***************************************************************************)
\* a registration number no create request uses
OtherRegNo == "R0"

\* bodies of POST requests: a college student, a high-school student, a
\* college student without a course, and a registration number in use
RecordCreateBodies ==
    LET base(r, g) == [registration_no |-> r, guardian_phone |-> g,
                       education_level |-> "college", course |-> "BSc",
                       year |-> "1st Year", amount |-> 1000]
        school(r) == [registration_no |-> r, guardian_phone |-> PhoneB,
                      education_level |-> "high_school",
                      year |-> "Form 1", amount |-> 1000]
        new == RegNo(NextId)
    IN  { base(new, PhoneB), school(new),
          [f \in DOMAIN base(new, PhoneB) \ {"course"} |-> base(new, PhoneB)[f]] }
        \cup { base(r, PhoneC) : r \in TakenRegistrationNos }

\* bodies of PATCH requests
RecordPatchBodies ==
    { [registration_no |-> OtherRegNo],
      [education_level |-> "high_school"], [education_level |-> "college"],
      [phone |-> PhoneBLocal] }

\* body of a PUT request for record id: every required field present,
\* the registration number the record has
RecordPutBody(id) ==
    [registration_no |-> students[id].registration_no, guardian_phone |-> PhoneB,
     education_level |-> "college", course |-> "BSc",
     year |-> "1st Year", amount |-> 1000]

\* the store of the record-keeping specification; the SMS settings play
\* no part in it
RecordsInit == Init /\ settings.SMS_PROVIDER = "log"

CreateValidate ==
    \E w \in Workers, data \in RecordCreateBodies, actor \in Users :
        create_validate(w, data, actor)

CreateInsert == \E w \in Workers : create_insert(w)

UpdateRecord ==
    /\ \E id \in Ids, actor \in Users :
          \/ \E data \in RecordPatchBodies : update(id, data, TRUE, actor)
          \/ Exists(id) /\ update(id, RecordPutBody(id), FALSE, actor)
    /\ UNCHANGED workers

RecordsNext ==
    \/ CreateValidate
    \/ CreateInsert
    \/ UpdateRecord

RecordsSpec == RecordsInit /\ [][RecordsNext]_vars

(***************************************************************************)
(* The phone cleaning specification: clean_phone_number applied to phone   *)
(* numbers as callers write them, made of a prefix, the first digit of the *)
(* subscriber number and the rest of it.                                   *)
(***************************************************************************)
PhonePrefixes ==
    { << >>, <<"+">>, <<"0">>, <<"0", "0">>, <<"2", "5", "4">>,
      <<"+", "2", "5", "4">>, <<"2", "5", "5">>, <<"a">> }

PhoneLeads == {"7", "1", "0"}

PhoneRests ==
    { <<"1", "2", "3", "4", "5", "6", "7", "8">>,
      <<"1", "2", "3", "4", "5", "6", "7">>,
      <<"1", "2", "3", "4", "5", "6", "7", "8", "9">>,
      <<"1", "2", " ", "3", "4", "5", "-", "6", "7", "8">>,
      <<"1", "2", "3", "4", "x", "6", "7", "8">> }

PhoneInputs ==
    { p \o <<l>> \o r : p \in PhonePrefixes, l \in PhoneLeads, r \in PhoneRests }
    \cup {NoPhone, PhoneJunk}

CleanInit == Init /\ settings.SMS_PROVIDER = "log"

Clean ==
    /\ \E phone \in PhoneInputs :
          last' = [op |-> "clean_phone_number", phone |-> phone,
                   \* what send_sms_notification gets at send time
                   result |-> clean_phone_number(phone),
                   \* the cleaned number passed through the cleaning again,
                   \* as send_via_blessed_texts callers do with stored numbers
                   again |-> clean_phone_number(clean_phone_number(phone).number),
                   \* what validate_phone / validate_guardian_phone store
                   written |-> format_phone_for_sms(phone)]
    /\ UNCHANGED <<students, now, settings, workers>>

CleanSpec == CleanInit /\ [][Clean]_vars

(***************************************************************************)
(* The stored-rows specification: notification requests on a store that    *)
(* already holds rows, among them rows without any phone.  Neither the     *)
(* column (guardian_phone is a CharField, '' is a value of it) nor          *)
(* Student.save refuses such a row; only the serializer and the admin form *)
(* do, so a row written by any other means (a fixture, a shell, an older   *)
(* release) can be one, and both handlers have a branch for it.  The rows  *)
(* were written at time 1; requests arrive from time 2 on.                 *)
(***************************************************************************)
StoredRow(id, guardian_phone, status, sms_status) ==
    SetAttrs(NewStudent,
             [registration_no |-> RegNo(id), guardian_phone |-> guardian_phone,
              education_level |-> "college", course |-> "BSc",
              year |-> "1st Year", amount |-> 1000,
              status |-> status,
              date_processed |-> IF status = "pending" THEN NoDate ELSE 1,
              sms_status |-> sms_status,
              sms_sent_at |-> IF sms_status = "not_sent" THEN NoDate ELSE 1,
              sms_sent_by |-> IF sms_status = "not_sent" THEN NoUser ELSE "u1"])

\* an approved row without phones that a notification was once tried for,
\* a pending row without phones, and an approved row with a guardian phone
\* that was never notified
StoredRows(id) ==
    { StoredRow(id, NoPhone, "approved", "failed"),
      StoredRow(id, NoPhone, "pending", "not_sent"),
      StoredRow(id, PhoneB, "approved", "not_sent") }

StoredInit ==
    /\ \E n \in Ids :
          students \in {f \in [1..n -> UNION {StoredRows(id) : id \in Ids}] :
                           \A id \in 1..n : f[id] \in StoredRows(id)}
    /\ now = 2
    /\ settings \in Settings
    /\ last = [Plain("init", {}, NoUser, NoData, 0, "") EXCEPT !.at = 0]
    /\ workers = [w \in Workers |-> Idle]

NotifyOne ==
    /\ \E id \in Ids, actor \in Users :
          \E replies \in ReplySeqs(NumSends({id} \cap DOMAIN students)) :
              send_sms(id, actor, Message(TRUE, 100), replies)
    /\ UNCHANGED workers

NotifyMany ==
    /\ \E student_ids \in SUBSET Ids, actor \in Users :
          \E replies \in ReplySeqs(NumSends(approved_students(student_ids))) :
              bulk_send_sms(student_ids, actor, Message(TRUE, 100), replies, 0)
    /\ UNCHANGED workers

StoredNext ==
    \/ NotifyOne
    \/ NotifyMany

StoredSpec == StoredInit /\ [][StoredNext]_vars

(***************************************************************************)
(* The gate specification: can_send_sms evaluated on a record with any     *)
(* combination of phones, status and sms_status.                           *)
(***************************************************************************)
GateRows ==
    { SetAttrs(NewStudent, [phone |-> p, guardian_phone |-> g,
                            status |-> st, sms_status |-> sms]) :
        p \in {NoPhone, PhoneA, PhoneJunk}, g \in {NoPhone, PhoneB, PhoneBLocal},
        st \in STATUS_CHOICES, sms \in SMS_STATUS_CHOICES }

GateInit == Init /\ settings.SMS_PROVIDER = "log"

CanSendSms ==
    /\ \E student \in GateRows :
          last' = [op |-> "can_send_sms", student |-> student,
                   result |-> can_send_sms(student)]
    /\ UNCHANGED <<students, now, settings, workers>>

GateSpec == GateInit /\ [][CanSendSms]_vars

(***************************************************************************)
(* The gateway specification: send_sms_notification called with a phone,   *)
(* a message and a provider reply, under every provider configuration.     *)
(***************************************************************************)
GatewaySettings ==
    Settings \cup { [SMS_PROVIDER |-> "blessed_texts", BLESSED_TEXTS_API_KEY |-> ""] }

GatewayPhones == {PhoneA, PhoneALocal, PhoneC, NoPhone}

\* texts around the 160-character limit, and a JSON number
GatewayMessages ==
    { Message(TRUE, n) : n \in {1, 100, 160, 161, 200} } \cup { Message(FALSE, 0) }

GatewayInit ==
    /\ students = << >>
    /\ now = 1
    /\ settings \in GatewaySettings
    /\ last = [Plain("init", {}, NoUser, NoData, 0, "") EXCEPT !.at = 0]
    /\ workers = [w \in Workers |-> Idle]

Send ==
    /\ \E phone \in GatewayPhones, message \in GatewayMessages, reply \in Replies :
          last' = [op |-> "send_sms_notification", phone |-> phone,
                   message |-> message, reply |-> reply,
                   result |-> send_sms_notification(phone, message, settings, reply)]
    /\ UNCHANGED <<students, now, settings, workers>>

GatewaySpec == GatewayInit /\ [][Send]_vars

(***************************************************************************)
(* The admin specification: records created through the API, then the      *)
(* list actions of the admin site on any selection of them, and single     *)
(* notifications through the API.                                          *)
(***************************************************************************)
\* a record the gateway can reach and one whose only number it refuses
AdminCreateBodies ==
    { [registration_no |-> RegNo(NextId), guardian_phone |-> g,
       education_level |-> "college", course |-> "BSc",
       year |-> "1st Year", amount |-> 1000] : g \in {PhoneB, PhoneC} }

AdminCreate ==
    /\ \E data \in AdminCreateBodies, actor \in Users : create(data, actor)
    /\ UNCHANGED workers

ApproveSelected ==
    /\ \E ids \in SUBSET Ids \ {{}}, actor \in Users : approve_selected(ids, actor)
    /\ UNCHANGED workers

RejectSelected ==
    /\ \E ids \in SUBSET Ids \ {{}}, actor \in Users : reject_selected(ids, actor)
    /\ UNCHANGED workers

SendSmsSelected ==
    /\ \E ids \in SUBSET Ids \ {{}}, actor \in Users :
          \E replies \in ReplySeqs(Cardinality(ids)) :
              send_sms_selected(ids, actor, replies)
    /\ UNCHANGED workers

AdminNotify ==
    /\ \E id \in Ids, actor \in Users :
          \E replies \in ReplySeqs(NumSends({id} \cap DOMAIN students)) :
              send_sms(id, actor, Message(TRUE, 100), replies)
    /\ UNCHANGED workers

AdminNext ==
    \/ AdminCreate
    \/ ApproveSelected
    \/ RejectSelected
    \/ SendSmsSelected
    \/ AdminNotify

AdminSpec == Init /\ [][AdminNext]_vars

(***************************************************************************)
(* The interleaving specification: records created through the API, then   *)
(* notifications and status transitions served by concurrent workers.      *)
(***************************************************************************)
\* a college student with a guardian phone, pending or created as approved
RaceCreateBodies ==
    LET base == [registration_no |-> RegNo(NextId), guardian_phone |-> PhoneB,
                 education_level |-> "college", course |-> "BSc",
                 year |-> "1st Year", amount |-> 1000]
    IN  { base, With(base, "status", "approved") }

RaceCreate ==
    /\ \E data \in RaceCreateBodies, actor \in Users : create(data, actor)
    /\ UNCHANGED workers

GetObject ==
    \E w \in Workers, id \in Ids, actor \in Users :
        \/ get_object(w, "send_sms", id, actor, NoReason)
        \/ get_object(w, "approve", id, actor, NoReason)
        \/ get_object(w, "reject", id, actor, "incomplete")

SendSmsFinish ==
    \E w \in Workers :
        /\ Holds(w, "send_sms")
        /\ \E replies \in ReplySeqs(Len(unique_phones(workers[w].student))) :
              send_sms_finish(w, Message(TRUE, 100), replies)

ApproveFinish == \E w \in Workers : approve_finish(w)

RejectFinish == \E w \in Workers : reject_finish(w)

RaceNext ==
    \/ RaceCreate
    \/ GetObject
    \/ SendSmsFinish
    \/ ApproveFinish
    \/ RejectFinish

RaceSpec == Init /\ [][RaceNext]_vars

(***************************************************************************)
(* Vocabulary of the properties.  All of them speak about the request      *)
(* that was handled last: last.before is the store it found, students the  *)
(* store it left.                                                          *)
(***************************************************************************)
NotifyOps == {"send_sms", "bulk_send_sms"}

\* rows the last request found in the store
Known == DOMAIN last.before

\* indices of the sends the last request made for record id
CallsFor(id) == {i \in DOMAIN last.calls : last.calls[i].student = id}

\* those of them that handed the message to a provider
SendsFor(id) ==
    {i \in CallsFor(id) : last.calls[i].provider = "log" \/ last.calls[i].network}

SuccessesFor(id) == {i \in CallsFor(id) : last.calls[i].status = "success"}

FailuresFor(id) == {i \in CallsFor(id) : last.calls[i].status = "failed"}

Unchanged(id) == id \in DOMAIN students /\ students[id] = last.before[id]

\* records the last bulk request selected for processing
Eligible == {id \in last.ids \cap Known : last.before[id].status = "approved"}

\* the bulk request returned its aggregate report
Reported == last.http = 200 /\ last.detail = "Bulk SMS operation completed."

(***************************************************************************)
(* C1: a notification request (send_sms, bulk_send_sms) makes no gateway   *)
(* call for, and does not change, any record whose status is not approved  *)
(* or whose sms_status is already sent.                                    *)
(***************************************************************************)
C1_GateCheckedAtSendTime ==
    last.op \in NotifyOps =>
        \A id \in last.ids \cap Known :
            (last.before[id].status # "approved" \/ last.before[id].sms_status = "sent")
                => (CallsFor(id) = {} /\ Unchanged(id))

(***************************************************************************)
(* C2: after a notification request, every record for which at least one   *)
(* send was attempted and whose row was written has sms_status failed when *)
(* no send succeeded, sent when every send succeeded, and partial when     *)
(* some succeeded and some failed; a notification request changes the      *)
(* sms_status of no other record.                                          *)
(***************************************************************************)
C2_AggregatedSmsStatus ==
    last.op \in NotifyOps =>
        \A id \in Known :
            IF CallsFor(id) # {} /\ id \notin last.unsaved
            THEN students[id].sms_status =
                    (IF SuccessesFor(id) = {} THEN "failed"
                     ELSE IF FailuresFor(id) = {} THEN "sent"
                     ELSE "partial")
            ELSE students[id].sms_status = last.before[id].sms_status

\* one of two distinct phones succeeded, the other failed: partial
C2_Witness ==
    /\ last.op = "send_sms"
    /\ \E id \in last.ids \cap Known :
          /\ SuccessesFor(id) # {}
          /\ FailuresFor(id) # {}
          /\ students[id].sms_status = "partial"

(***************************************************************************)
(* C3: within one notification request no two messages handed to the       *)
(* provider for a record go to the same normalized number, and a record    *)
(* whose student phone and guardian phone normalize to the same number     *)
(* gets exactly one send, tagged "student/guardian".                       *)
(***************************************************************************)
C3_OneSendPerDestination ==
    last.op \in NotifyOps =>
        \A id \in Known :
            /\ \A i, j \in SendsFor(id) :
                  i # j => last.calls[i].number # last.calls[j].number
            /\ LET own == clean_phone_number(last.before[id].phone).number
                   guardian == clean_phone_number(last.before[id].guardian_phone).number
               IN  (SendsFor(id) # {} /\ own # NoPhone /\ own = guardian)
                       => /\ Cardinality(SendsFor(id)) = 1
                          /\ \A i \in SendsFor(id) :
                                last.calls[i].type = "student/guardian"

(***************************************************************************)
(* C4: send_sms attempts every recipient of the record, whatever happens   *)
(* to the others: the sends made and the result list returned both have    *)
(* exactly one entry for each distinct stored phone of the record.         *)
(***************************************************************************)
C4_EveryRecipientAttempted ==
    last.op = "send_sms" =>
        \A id \in last.ids \cap Known :
            LET recipients == {last.before[id].phone, last.before[id].guardian_phone}
                                 \ {NoPhone}
            IN  /\ Len(last.calls) = Cardinality(recipients)
                /\ Len(last.results) = Cardinality(recipients)
                /\ \A p \in recipients :
                      /\ Cardinality({i \in DOMAIN last.calls :
                                         last.calls[i].phone = p}) = 1
                      /\ Cardinality({i \in DOMAIN last.results :
                                         last.results[i].phone = p}) = 1

\* the send to the first recipient failed and the second was still attempted
C4_Witness ==
    /\ last.op = "send_sms"
    /\ Len(last.calls) = 2
    /\ last.calls[1].status = "failed"
    /\ last.results[2].phone = last.calls[2].phone

(***************************************************************************)
(* C5: a bulk notification that has records to process always returns its  *)
(* aggregate report, with an entry for every approved record requested,    *)
(* also when processing one of them fails unexpectedly.                    *)
(***************************************************************************)
C5_BulkIsolatesRecordErrors ==
    (last.op = "bulk_send_sms" /\ Eligible # {}) =>
        /\ Reported
        /\ \A id \in Eligible :
              \E i \in DOMAIN last.results : last.results[i].student_id = id

(***************************************************************************)
(* C6: in the report of a bulk notification, success_count is the number   *)
(* of processed records with at least one successful send, failure_count   *)
(* the number of the other processed records, and a processed record had   *)
(* a successful send exactly when its sms_status is now sent or partial.   *)
(***************************************************************************)
C6_BulkCounts ==
    (last.op = "bulk_send_sms" /\ Reported) =>
        LET succeeded == {id \in Eligible : SuccessesFor(id) # {}}
        IN  /\ last.success_count = Cardinality(succeeded)
            /\ last.failure_count = Cardinality(Eligible \ succeeded)
            /\ \A id \in Eligible :
                  id \in succeeded <=> students[id].sms_status \in {"sent", "partial"}

\* one record partially notified and counted as succeeded, one failed
C6_Witness ==
    /\ last.op = "bulk_send_sms"
    /\ Reported
    /\ last.success_count = 1
    /\ last.failure_count = 1
    /\ \E id \in Eligible : students[id].sms_status = "partial"

(***************************************************************************)
(* C7: a bulk notification makes no send for, changes no field of, and     *)
(* reports nothing about a requested id whose record is not approved; with *)
(* no approved record among the requested ids it makes no send, changes    *)
(* nothing and does not answer with a server error.                        *)
(***************************************************************************)
C7_BulkOnlyApproved ==
    last.op = "bulk_send_sms" =>
        /\ \A id \in last.ids \ Eligible :
              /\ CallsFor(id) = {}
              /\ id \in Known => Unchanged(id)
              /\ \A i \in DOMAIN last.results : last.results[i].student_id # id
        /\ Eligible = {} =>
              /\ last.calls = << >>
              /\ students = last.before
              /\ last.http \in {200, 400}

\* a request naming an approved record, which is notified, and one that is
\* not approved
C7_Witness ==
    /\ last.op = "bulk_send_sms"
    /\ \E id \in Eligible : CallsFor(id) # {}
    /\ \E id \in (last.ids \cap Known) \ Eligible : Unchanged(id)

(***************************************************************************)
(* C8: the status of a record only ever changes from pending to approved,  *)
(* from pending to rejected or from approved to disbursed, and approve or  *)
(* reject on a record that is not pending is refused and changes nothing.  *)
(***************************************************************************)
C8_StatusTransitions ==
    /\ \A id \in Known :
          students[id].status # last.before[id].status
              => <<last.before[id].status, students[id].status>> \in
                    { <<"pending", "approved">>, <<"pending", "rejected">>,
                      <<"approved", "disbursed">> }
    /\ last.op \in {"approve", "reject"} =>
          \A id \in last.ids \cap Known :
              last.before[id].status # "pending"
                  => (last.http \in 400..499 /\ Unchanged(id))

(***************************************************************************)
(* C9: approve on a record that is already approved answers with a client  *)
(* error and leaves the store as it was.                                   *)
(***************************************************************************)
C9_ReapproveRefused ==
    last.op = "approve" =>
        \A id \in last.ids \cap Known :
            last.before[id].status = "approved"
                => (last.http \in 400..499 /\ students = last.before)

\* an approve request that found its record approved
C9_Witness ==
    /\ last.op = "approve"
    /\ \E id \in last.ids \cap Known : last.before[id].status = "approved"

(***************************************************************************)
(* C10: reject with an empty or missing reason answers with a client error *)
(* and leaves the store as it was; reject of a pending record with a       *)
(* reason sets status to rejected, stores the reason and sets              *)
(* date_processed to the time of the request.                              *)
(***************************************************************************)
C10_RejectNeedsReason ==
    last.op = "reject" =>
        \A id \in last.ids \cap Known :
            /\ last.data.reason = ""
                  => (last.http \in 400..499 /\ students = last.before)
            /\ (last.data.reason # "" /\ last.before[id].status = "pending")
                  => /\ students[id].status = "rejected"
                     /\ students[id].rejection_reason = last.data.reason
                     /\ students[id].date_processed = last.at
                     /\ students[id].date_processed # NoDate

\* a pending record was rejected with a reason
C10_Witness ==
    /\ last.op = "reject"
    /\ last.http = 200
    /\ \E id \in last.ids \cap Known : last.before[id].status = "pending"

(***************************************************************************)
(* C11: once date_processed of a record holds a value, no approve, reject  *)
(* or notification request changes or clears it.                           *)
(***************************************************************************)
C11_DateProcessedSetOnce ==
    last.op \in {"approve", "reject"} \cup NotifyOps =>
        \A id \in Known :
            last.before[id].date_processed # NoDate
                => students[id].date_processed = last.before[id].date_processed

(***************************************************************************)
(* C12: a notification request changes the status of no record, and an     *)
(* approve or reject request makes no send and changes sms_status,         *)
(* sms_sent_at and sms_sent_by of no record.                               *)
(***************************************************************************)
C12_StatusAndSmsIndependent ==
    /\ last.op \in NotifyOps =>
          \A id \in Known : students[id].status = last.before[id].status
    /\ last.op \in {"approve", "reject"} =>
          /\ last.calls = << >>
          /\ \A id \in Known :
                /\ students[id].sms_status = last.before[id].sms_status
                /\ students[id].sms_sent_at = last.before[id].sms_sent_at
                /\ students[id].sms_sent_by = last.before[id].sms_sent_by

\* a record that had been notified was approved
C12_Witness ==
    /\ last.op = "approve"
    /\ last.http = 200
    /\ \E id \in last.ids \cap Known :
          /\ last.before[id].sms_status # "not_sent"
          /\ last.before[id].sms_sent_at # NoDate
          /\ students[id].status = "approved"

(***************************************************************************)
(* C13: a create, update, approve or reject request changes the sms_status *)
(* of no record, whatever fields the caller supplies.                      *)
(***************************************************************************)
C13_SmsStatusOnlyByNotification ==
    last.op \in {"create", "update", "approve", "reject"} =>
        \A id \in Known : students[id].sms_status = last.before[id].sms_status

(***************************************************************************)
(* C14: a record stored by a create request has status pending and         *)
(* sms_status not_sent, whatever fields the caller supplies.               *)
(***************************************************************************)
C14_CreatedPendingNotSent ==
    (last.op = "create" /\ last.http = 201) =>
        \A id \in last.ids :
            /\ students[id].status = "pending"
            /\ students[id].sms_status = "not_sent"

C16_RegistrationNoImmutable ==
    last.op = "update" =>
        \A id \in Known :
            students[id].registration_no = last.before[id].registration_no

(***************************************************************************)
(* C17: every stored record has an empty course exactly when its           *)
(* education_level is high_school.                                         *)
(***************************************************************************)
C17_CourseEmptyIffHighSchool ==
    \A id \in DOMAIN students :
        students[id].course = "" <=> students[id].education_level = "high_school"

(***************************************************************************)
(* C18: the year of every stored record belongs to the years of its        *)
(* education_level: Form 1..4 for high_school, 1st..4th Year for college   *)
(* and university.                                                         *)
(***************************************************************************)
C18_YearMatchesLevel ==
    \A id \in DOMAIN students :
        IF students[id].education_level = "high_school"
        THEN students[id].year \in {"Form 1", "Form 2", "Form 3", "Form 4"}
        ELSE students[id].year \in {"1st Year", "2nd Year", "3rd Year", "4th Year"}

(***************************************************************************)
(* C19: no stored record has a non-empty phone equal to its guardian_phone. *)
(***************************************************************************)
C19_PhonesDiffer ==
    \A id \in DOMAIN students :
        students[id].phone # NoPhone
            => students[id].phone # students[id].guardian_phone

(***************************************************************************)
(* C20: clean_phone_number returns 254 followed by the nine subscriber     *)
(* digits for every input whose digits, all other characters removed, are  *)
(* 12 digits starting with 2547, 10 digits starting with 07 or 9 digits    *)
(* starting with 7, and returns an error and no number for every other     *)
(* input.                                                                  *)
(***************************************************************************)
C20_CleanPhoneNumber ==
    last.op = "clean_phone_number" =>
        LET digits == StripNonDigits(last.phone)
            n == Len(digits)
            accepted ==
                \/ n = 12 /\ SubSeq(digits, 1, 4) = <<"2", "5", "4", "7">>
                \/ n = 10 /\ SubSeq(digits, 1, 2) = <<"0", "7">>
                \/ n = 9 /\ digits[1] = "7"
        IN  IF accepted
            THEN /\ last.result.error = ""
                 /\ last.result.number = <<"2", "5", "4">> \o SubSeq(digits, n - 8, n)
            ELSE /\ last.result.error # ""
                 /\ last.result.number = NoPhone

\* 0712345678 was cleaned to 254712345678
C20_Witness ==
    /\ last.op = "clean_phone_number"
    /\ last.phone = PhoneALocal
    /\ last.result.number = PhoneA

(***************************************************************************)
(* C21: clean_phone_number is idempotent on what it accepts: cleaning the  *)
(* number it returned succeeds and returns the same number.                *)
(***************************************************************************)
C21_CleanIdempotent ==
    (last.op = "clean_phone_number" /\ last.result.error = "") =>
        /\ last.again.error = ""
        /\ last.again.number = last.result.number

\* "+25471 2345-678" was cleaned to 254712345678, and that to itself
C21_Witness ==
    /\ last.op = "clean_phone_number"
    /\ last.phone = <<"+", "2", "5", "4", "7", "1", "2", " ", "3", "4", "5", "-",
                      "6", "7", "8">>
    /\ last.result.number = PhoneA
    /\ last.again.number = PhoneA

(***************************************************************************)
(* C22: the validator of the serializer (write time) accepts a phone       *)
(* exactly when clean_phone_number (send time) accepts it, and both return *)
(* the same number.                                                        *)
(***************************************************************************)
C22_WriteAndSendValidityAgree ==
    last.op = "clean_phone_number" =>
        /\ last.written # NoPhone <=> last.result.error = ""
        /\ last.written = last.result.number

(***************************************************************************)
(* C23: a send through the real provider returns success exactly when the  *)
(* HTTP response is 2xx with a well-formed body whose status_code is       *)
(* "1000"; in every other case it returns failure, and it never raises.    *)
(***************************************************************************)
C23_ProviderSuccessOnlyOnSentinel ==
    (last.op = "send_sms_notification" /\ last.result.provider = "blessed_texts") =>
        /\ ~last.result.raised
        /\ last.result.ok <=>
              /\ last.result.network
              /\ last.reply.kind = "http"
              /\ last.reply.http \in 200..299
              /\ last.reply.body \in {"list", "dict"}
              /\ last.reply.code = "1000"

(***************************************************************************)
(* C27: the message handed to a provider is at most 160 characters long:   *)
(* a longer message is cut to exactly 160 characters, a message of at most *)
(* 160 characters is passed unchanged, and a cut message is still sent     *)
(* successfully when the provider accepts it.                              *)
(***************************************************************************)
C27_MessageWithinLimit ==
    (/\ last.op = "send_sms_notification"
     /\ last.message.is_str
     /\ last.result.provider = "log" \/ last.result.network) =>
        /\ last.result.msg_len <= 160
        /\ last.result.msg_len = (IF last.message.len > 160 THEN 160
                                  ELSE last.message.len)
        /\ (last.message.len > 160 /\ last.reply = ReplySent) => last.result.ok

(***************************************************************************)
(* C24: can_send_sms answers false with the no-phone reason when both      *)
(* phones are empty, whatever the status; otherwise false with the         *)
(* must-be-approved reason when the status is not approved; otherwise      *)
(* false when sms_status is sent; and true in every other case, that is    *)
(* exactly when the record is approved, not yet notified and has a phone.  *)
(***************************************************************************)
C24_CanSendSms ==
    last.op = "can_send_sms" =>
        LET student == last.student
            has_phone == student.phone # NoPhone \/ student.guardian_phone # NoPhone
        IN  /\ ~has_phone =>
                  /\ ~last.result.ok
                  /\ last.result.reason = "No phone number available"
            /\ (has_phone /\ student.status # "approved") =>
                  /\ ~last.result.ok
                  /\ last.result.reason = "Student must be approved to send SMS"
            /\ (has_phone /\ student.status = "approved"
                    /\ student.sms_status = "sent") => ~last.result.ok
            /\ last.result.ok <=>
                  /\ has_phone
                  /\ student.status = "approved"
                  /\ student.sms_status # "sent"

\* a pending record without any phone: the no-phone reason comes first
C24_Witness ==
    /\ last.op = "can_send_sms"
    /\ last.student.phone = NoPhone
    /\ last.student.guardian_phone = NoPhone
    /\ last.student.status = "pending"
    /\ last.result.reason = "No phone number available"

(***************************************************************************)
(* C25: send_sms on a record that has neither a phone nor a guardian phone *)
(* answers with a client error, makes no send and changes no field of any  *)
(* record.                                                                 *)
(***************************************************************************)
C25_NoPhoneRefusedUpfront ==
    last.op = "send_sms" =>
        \A id \in last.ids \cap Known :
            (last.before[id].phone = NoPhone /\ last.before[id].guardian_phone = NoPhone)
                => /\ last.http \in 400..499
                   /\ last.calls = << >>
                   /\ students = last.before

\* send_sms on a record without phones whose sms_status was failed
C25_Witness ==
    /\ last.op = "send_sms"
    /\ last.http = 400
    /\ \E id \in last.ids \cap Known :
          /\ last.before[id].phone = NoPhone
          /\ last.before[id].guardian_phone = NoPhone
          /\ students[id].sms_status = "failed"
          /\ students[id].sms_sent_at = 1

(***************************************************************************)
(* C30: in the report of a bulk notification success_count and             *)
(* failure_count add up to the number of approved records requested, with  *)
(* exactly one result entry for each of them; an approved record without   *)
(* phones is among the failures, its entry says that no phone numbers are  *)
(* available, no send is made for it and it is left unchanged.             *)
(***************************************************************************)
C30_BulkAccountsForEveryRecord ==
    (last.op = "bulk_send_sms" /\ Reported) =>
        /\ last.success_count + last.failure_count = Cardinality(Eligible)
        /\ Len(last.results) = Cardinality(Eligible)
        /\ last.failure_count = Cardinality({id \in Eligible : SuccessesFor(id) = {}})
        /\ \A id \in Eligible :
              /\ Cardinality({i \in DOMAIN last.results :
                                 last.results[i].student_id = id}) = 1
              /\ (last.before[id].phone = NoPhone
                     /\ last.before[id].guardian_phone = NoPhone)
                    => /\ \A i \in DOMAIN last.results :
                             last.results[i].student_id = id
                                => /\ last.results[i].status = "failed"
                                   /\ last.results[i].error = "No phone numbers available"
                       /\ CallsFor(id) = {}
                       /\ Unchanged(id)

\* a batch of one approved record without phones and one that was notified
C30_Witness ==
    /\ last.op = "bulk_send_sms"
    /\ Reported
    /\ last.success_count = 1
    /\ last.failure_count = 1
    /\ \E id \in Eligible :
          /\ last.before[id].phone = NoPhone
          /\ last.before[id].guardian_phone = NoPhone
          /\ CallsFor(id) = {}

(***************************************************************************)
(* C28: the admin action send_sms_selected sets sms_status to sent only    *)
(* for a record whose send the gateway reported as successful; a record    *)
(* whose send failed keeps its sms_status and is counted as failed.        *)
(***************************************************************************)
C28_AdminSentOnlyOnSuccess ==
    last.op = "send_sms_selected" =>
        /\ \A id \in last.ids \cap Known :
              /\ (students[id].sms_status = "sent"
                    /\ last.before[id].sms_status # "sent")
                   => SuccessesFor(id) # {}
              /\ FailuresFor(id) # {}
                   => students[id].sms_status = last.before[id].sms_status
        /\ last.success_count
             = Cardinality({id \in last.ids \cap Known : SuccessesFor(id) # {}})
        /\ last.failure_count
             = Cardinality({id \in last.ids \cap Known : FailuresFor(id) # {}})

(***************************************************************************)
(* C29: a record whose status is approved, disbursed or rejected has       *)
(* date_processed set, and a notification never changes date_processed.    *)
(***************************************************************************)
C29_ProcessedHasDate ==
    /\ \A id \in DOMAIN students :
          students[id].status \in {"approved", "disbursed", "rejected"}
             => students[id].date_processed # NoDate
    /\ last.op \in NotifyOps \cup {"send_sms_selected"}
          => \A id \in Known :
                students[id].date_processed = last.before[id].date_processed

(***************************************************************************)
(* C26: when a notification and an approve or reject of the same record    *)
(* overlap, neither write undoes the other: the notification leaves the    *)
(* status, rejection_reason and date_processed it finds in the store when  *)
(* it writes, and the transition leaves the sms_status it finds.           *)
(***************************************************************************)
C26_TransitionNotLost ==
    /\ (last.op = "send_sms" /\ last.calls # << >>)
          => \A id \in last.ids \cap Known :
                /\ students[id].status = last.before[id].status
                /\ students[id].rejection_reason = last.before[id].rejection_reason
                /\ students[id].date_processed = last.before[id].date_processed
    /\ (last.op \in {"approve", "reject"} /\ last.http = 200)
          => \A id \in last.ids \cap Known :
                students[id].sms_status = last.before[id].sms_status

====
